---------------------------- MODULE Spec2Model ----------------------------
(***************************************************************************)
(* A model of the AI shell: the three-layer command resolver of            *)
(* AI_shell/nlp_processor.py (alias lookup, creation rule, generative      *)
(* fallback with command extraction) and the debounced autocomplete        *)
(* handler of AI_shell/tui_app.py.                                         *)
(*                                                                         *)
(* Python strings are TLA+ strings; a character is a string of length 1    *)
(* and the regular expressions of the source are written out as the        *)
(* searches they perform, character by character.                          *)
(***************************************************************************)
EXTENDS Integers, Sequences, FiniteSets, TLC

(***************************************************************************)
(* str primitives                                                          *)
(***************************************************************************)
Ch(s, i) == SubSeq(s, i, i)

From(s, i) == SubSeq(s, i, Len(s))

Min(a, b) == IF a < b THEN a ELSE b

\* str.isspace for one character (the whitespace str.strip, str.split and \s use)
IsSpace(c) == c \in {" ", "\t", "\n", "\r"}

UpperChars == "ABCDEFGHIJKLMNOPQRSTUVWXYZ"

LowerChars == "abcdefghijklmnopqrstuvwxyz"

DigitChars == "0123456789"

CharsOf(s) == {Ch(s, i) : i \in 1..Len(s)}

\* \w of the re module (ASCII range)
WordCharSet == CharsOf(UpperChars) \cup CharsOf(LowerChars) \cup CharsOf(DigitChars) \cup {"_"}

IsWordChar(c) == c \in WordCharSet

LowerCh(c) ==
    IF \E i \in 1..Len(UpperChars) : Ch(UpperChars, i) = c
    THEN Ch(LowerChars, CHOOSE i \in 1..Len(UpperChars) : Ch(UpperChars, i) = c)
    ELSE c

RECURSIVE Lower(_)
\* str.lower
Lower(s) == IF s = "" THEN "" ELSE LowerCh(Ch(s, 1)) \o Lower(From(s, 2))

RECURSIVE LStrip(_)
LStrip(s) == IF s # "" /\ IsSpace(Ch(s, 1)) THEN LStrip(From(s, 2)) ELSE s

RECURSIVE RStrip(_)
RStrip(s) ==
    IF s # "" /\ IsSpace(Ch(s, Len(s))) THEN RStrip(SubSeq(s, 1, Len(s) - 1)) ELSE s

\* str.strip()
Strip(s) == RStrip(LStrip(s))

RECURSIVE RStripChars(_, _)
\* str.rstrip(chars)
RStripChars(s, chars) ==
    IF s # "" /\ Ch(s, Len(s)) \in chars
    THEN RStripChars(SubSeq(s, 1, Len(s) - 1), chars)
    ELSE s

\* s[i..] starts with p
StartsAt(s, i, p) == i >= 1 /\ i + Len(p) - 1 <= Len(s) /\ SubSeq(s, i, i + Len(p) - 1) = p

\* "p in s" for strings
Contains(s, p) == \E i \in 1..(Len(s) + 1) : StartsAt(s, i, p)

\* the first index >= i at which s holds character-run delimiter test `sp`, or Len(s)+1
RECURSIVE WordEnd(_, _)
WordEnd(s, i) == IF i > Len(s) \/ IsSpace(Ch(s, i)) THEN i ELSE WordEnd(s, i + 1)

RECURSIVE Split(_)
\* str.split() with no separator: the maximal runs of non-whitespace
Split(s) ==
    LET t == LStrip(s)
        e == WordEnd(t, 1)
    IN  IF t = "" THEN << >> ELSE <<SubSeq(t, 1, e - 1)>> \o Split(From(t, e))

RECURSIVE Join(_, _)
\* sep.join(words)
Join(sep, words) ==
    IF words = << >> THEN ""
    ELSE IF Len(words) = 1 THEN words[1]
    ELSE words[1] \o sep \o Join(sep, Tail(words))

RECURSIVE SplitLines(_)
\* str.split('\n')
SplitLines(s) ==
    IF ~Contains(s, "\n") THEN <<s>>
    ELSE LET i == CHOOSE k \in 1..Len(s) :
                      Ch(s, k) = "\n" /\ \A j \in 1..(k - 1) : Ch(s, j) # "\n"
         IN  <<SubSeq(s, 1, i - 1)>> \o SplitLines(From(s, i + 1))

RECURSIVE RemoveChar(_, _)
\* str.replace(c, "")
RemoveChar(s, c) ==
    IF s = "" THEN ""
    ELSE (IF Ch(s, 1) = c THEN "" ELSE Ch(s, 1)) \o RemoveChar(From(s, 2), c)

\* python slice seq[a:] (0-based a) of a list
SliceFrom(seq, a) == IF a >= Len(seq) THEN << >> ELSE SubSeq(seq, a + 1, Len(seq))

\* python slice seq[0:b] of a list
SliceTo(seq, b) == SubSeq(seq, 1, Min(b, Len(seq)))

\* x in list
InList(x, seq) == \E i \in 1..Len(seq) : seq[i] = x


(***************************************************************************)
(* nlp_processor.py: the static tables                                     *)
(***************************************************************************)
\* the values platform.system() takes on the platforms COMMAND_MAP covers
OSIdentity == {"Windows", "Linux", "Darwin"}

PerOS(w, l, d) == ("Windows" :> w) @@ ("Linux" :> l) @@ ("Darwin" :> d)

COMMAND_MAP ==
    ("list_items" :> PerOS("Get-ChildItem", "ls -l", "ls -l")) @@
    ("list_all_items" :> PerOS("Get-ChildItem -Force", "ls -a", "ls -a")) @@
    ("show_location" :> PerOS("Get-Location", "pwd", "pwd")) @@
    ("clear_screen" :> PerOS("Clear-Host", "clear", "clear")) @@
    ("make_directory" :> PerOS("New-Item -ItemType Directory", "mkdir", "mkdir")) @@
    ("create_file" :> PerOS("New-Item -ItemType File", "touch", "touch"))

ALIAS_MAP ==
    ("ls" :> "list_items") @@ ("dir" :> "list_items") @@ ("ls -a" :> "list_all_items") @@
    ("pwd" :> "show_location") @@ ("clear" :> "clear_screen") @@ ("cls" :> "clear_screen") @@
    ("mkdir" :> "make_directory") @@ ("touch" :> "create_file") @@
    ("get-childitem" :> "list_items") @@ ("get-location" :> "show_location") @@
    ("clear-host" :> "clear_screen") @@
    ("new-item -itemtype directory" :> "make_directory") @@
    ("new-item -itemtype file" :> "create_file")

\* the literals of DANGEROUS_PATTERNS; each is wrapped in \b ... \b in the source
DANGEROUS_PATTERNS ==
    <<"rm", "rm -rf", "rm -r", "del", "Remove-Item", "format", "dd", "shutdown",
      "reboot", "mkfs", ": > /dev/sda">>

\* \b at the gap before index i (1..Len(s)+1)
WordBoundary(s, i) ==
    LET before == i > 1 /\ i - 1 <= Len(s) /\ IsWordChar(Ch(s, i - 1))
        after == i >= 1 /\ i <= Len(s) /\ IsWordChar(Ch(s, i))
    IN  before # after

\* DANGEROUS_REGEX = re.compile("|".join(DANGEROUS_PATTERNS), re.IGNORECASE), as a search
DANGEROUS_REGEX(s) ==
    LET ls == Lower(s)
    IN  \E k \in 1..Len(DANGEROUS_PATTERNS) : \E i \in 1..Len(s) :
            /\ StartsAt(ls, i, Lower(DANGEROUS_PATTERNS[k]))
            /\ WordBoundary(s, i)
            /\ WordBoundary(s, i + Len(DANGEROUS_PATTERNS[k]))

looks_dangerous(command_str) == DANGEROUS_REGEX(command_str)

(***************************************************************************)
(* extract_command_from_output                                             *)
(***************************************************************************)
\* The grave accent (U+0060) cannot be written inside a TLA+ string: the
\* circumflex stands for it in every string of this module.
Backtick == "^"

Fence == Backtick \o Backtick \o Backtick

RECURSIVE WordRunEnd(_, _)
\* the first index >= i that holds no \w character
WordRunEnd(s, i) == IF i <= Len(s) /\ IsWordChar(Ch(s, i)) THEN WordRunEnd(s, i + 1) ELSE i

\* code_block_regex = ```(?:\w+\n)?(.*?)``` with DOTALL, as a search:
\* <<TRUE, group 1>> for the leftmost match, <<FALSE, "">> when there is none
code_block_regex(content) ==
    LET opens == {i \in 1..Len(content) :
                    /\ StartsAt(content, i, Fence)
                    /\ \E j \in (i + 3)..Len(content) : StartsAt(content, j, Fence)}
    IN  IF opens = {} THEN <<FALSE, "">>
        ELSE LET i == CHOOSE a \in opens : \A b \in opens : a <= b
                 e == WordRunEnd(content, i + 3)
                 tagged == e > i + 3 /\ e <= Len(content) /\ Ch(content, e) = "\n"
                 start == IF tagged THEN e + 1 ELSE i + 3
                 closes == {j \in start..Len(content) : StartsAt(content, j, Fence)}
                 j == CHOOSE a \in closes : \A b \in closes : a <= b
             IN  <<TRUE, SubSeq(content, start, j - 1)>>

RECURSIVE NonEmptyStripped(_)
\* [line.strip() for line in lines if line.strip()]
NonEmptyStripped(lines) ==
    IF lines = << >> THEN << >>
    ELSE (IF Strip(Head(lines)) = "" THEN << >> ELSE <<Strip(Head(lines))>>)
             \o NonEmptyStripped(Tail(lines))

\* the extraction with the first non-empty line in place of the last
extract_first_line(content) ==
    LET match == code_block_regex(content)
        lines == NonEmptyStripped(SplitLines(content))
    IN  IF match[1] THEN Strip(match[2])
        ELSE IF lines # << >> THEN lines[1]
        ELSE RemoveChar(Strip(content), Backtick)

extract_command_from_output(content) ==
    LET match == code_block_regex(content)
        lines == NonEmptyStripped(SplitLines(content))
    IN  IF match[1] THEN Strip(match[2])
        ELSE IF lines # << >> THEN lines[Len(lines)]
        ELSE RemoveChar(Strip(content), Backtick)

(***************************************************************************)
(* get_smart_command, Layer 1: the alias table                             *)
(***************************************************************************)
\* parts = text.strip().split()
Parts(text) == Split(Strip(text))

\* line 50; parts[0] of an empty list raises IndexError
base_command(parts) ==
    IF InList("new-item", parts) THEN Join(" ", SliceTo(parts, 3)) ELSE parts[1]

\* lines 51-59: <<TRUE, command>> on a hit, <<FALSE, "">> on fall-through
Layer1(text, current_os) ==
    LET parts == Parts(text)
        base == base_command(parts)
        concept == ALIAS_MAP[base]
        args == IF Contains(base, "new-item") THEN SliceFrom(parts, 3) ELSE SliceFrom(parts, 1)
    IN  IF base \in DOMAIN ALIAS_MAP /\ concept \in DOMAIN COMMAND_MAP
           /\ current_os \in DOMAIN COMMAND_MAP[concept]
        THEN <<TRUE, Strip(COMMAND_MAP[concept][current_os] \o " " \o Join(" ", args))>>
        ELSE <<FALSE, "">>

(***************************************************************************)
(* get_smart_command, Layer 2: the creation rule                           *)
(***************************************************************************)
Verbs == {"create", "make"}

Kinds == {"file", "folder", "directory"}

Quotes == {"\"", "'"}

LocationKeywords == {"desktop", "documents", "downloads"}

\* (create|make)\s at index i: the index after the whitespace, 0 when it does not match
VerbAt(s, i) ==
    IF \E v \in Verbs : StartsAt(s, i, v) /\ i + Len(v) <= Len(s) /\ IsSpace(Ch(s, i + Len(v)))
    THEN i + Len(CHOOSE v \in Verbs : StartsAt(s, i, v)) + 1
    ELSE 0

RECURSIVE SpaceRunEnd(_, _)
\* the first index >= i that holds no whitespace
SpaceRunEnd(s, i) == IF i <= Len(s) /\ IsSpace(Ch(s, i)) THEN SpaceRunEnd(s, i + 1) ELSE i

RECURSIVE NameFrom(_, _, _)
\* \s*["']?(.+?)["']? from index q: \s* gives back from its longest run r down to q,
\* the quote is optional, and the lazy group settles for the first character it can
\* take ('.' takes no newline).  <<TRUE, group 3>> or <<FALSE, "">>.
NameFrom(s, q, r) ==
    IF r < q THEN <<FALSE, "">>
    ELSE IF r <= Len(s) /\ Ch(s, r) \in Quotes /\ r + 1 <= Len(s) /\ Ch(s, r + 1) # "\n"
         THEN <<TRUE, Ch(s, r + 1)>>
    ELSE IF r <= Len(s) /\ Ch(s, r) # "\n" THEN <<TRUE, Ch(s, r)>>
    ELSE NameFrom(s, q, r - 1)

\* creation_pattern = (create|make)\s.*(file|folder|directory)\s*["']?(.+?)["']?, as a
\* search: the leftmost verb from which the rest matches, the greedy .* reaching the
\* last kind word that still leaves a character for group 3.
\* [matched, item_type (group 2), name (group 3)]
creation_pattern(s) ==
    LET KindAt(k) == \E w \in Kinds : StartsAt(s, k, w)
        KindOf(k) == CHOOSE w \in Kinds : StartsAt(s, k, w)
        After(k) == k + Len(KindOf(k))
        Name(k) == NameFrom(s, After(k), SpaceRunEnd(s, After(k)))
        KindsFrom(p) == {k \in p..Len(s) :
                            /\ KindAt(k)
                            /\ \A j \in p..(k - 1) : Ch(s, j) # "\n"
                            /\ Name(k)[1]}
        starts == {i \in 1..Len(s) : VerbAt(s, i) # 0 /\ KindsFrom(VerbAt(s, i)) # {}}
    IN  IF starts = {} THEN [matched |-> FALSE, item_type |-> "", name |-> ""]
        ELSE LET i == CHOOSE a \in starts : \A b \in starts : a <= b
                 ks == KindsFrom(VerbAt(s, i))
                 k == CHOOSE a \in ks : \A b \in ks : a >= b
             IN  [matched |-> TRUE, item_type |-> KindOf(k), name |-> Name(k)[2]]

\* the location pattern never consulted
location_pattern_unused(s) == <<FALSE, "">>

\* location_pattern = on\s(desktop|documents|downloads), as a search:
\* <<TRUE, group 1>> for the leftmost match, <<FALSE, "">> when there is none
location_pattern(s) ==
    LET At(i) == /\ StartsAt(s, i, "on")
                 /\ i + 2 <= Len(s) /\ IsSpace(Ch(s, i + 2))
                 /\ \E w \in LocationKeywords : StartsAt(s, i + 3, w)
        starts == {i \in 1..Len(s) : At(i)}
    IN  IF starts = {} THEN <<FALSE, "">>
        ELSE LET i == CHOOSE a \in starts : \A b \in starts : a <= b
             IN  <<TRUE, CHOOSE w \in LocationKeywords : StartsAt(s, i + 3, w)>>

\* os.path.join(a, b): posixpath on Linux/Darwin, ntpath on Windows (b holds no drive)
os_path_join(current_os, a, b) ==
    IF current_os = "Windows"
    THEN IF b # "" /\ Ch(b, 1) \in {"\\", "/"}
         THEN (IF Len(a) >= 2 /\ Ch(a, 2) = ":" THEN SubSeq(a, 1, 2) ELSE "") \o b
         ELSE IF a # "" /\ Ch(a, Len(a)) \notin {"\\", "/", ":"} THEN a \o "\\" \o b
         ELSE a \o b
    ELSE IF b # "" /\ Ch(b, 1) = "/" THEN b
         ELSE IF a = "" \/ Ch(a, Len(a)) = "/" THEN a \o b
         ELSE a \o "/" \o b

\* lines 69-70
desktop_path(current_os, home) ==
    IF current_os = "Windows" /\ Contains(home, "OneDrive")
    THEN os_path_join(current_os, os_path_join(current_os, home, "OneDrive"), "Desktop")
    ELSE os_path_join(current_os, home, "Desktop")

\* lines 71-75
location_map(current_os, home) ==
    ("desktop" :> desktop_path(current_os, home)) @@
    ("documents" :> os_path_join(current_os, home, "Documents")) @@
    ("downloads" :> os_path_join(current_os, home, "Downloads"))

\* lines 63-96: [matched, item_type, item_name, base_path, full_path, command]
Layer2(text, current_os, home) ==
    LET clean_text == Lower(Strip(text))
        creation_match == creation_pattern(clean_text)
        location_match == location_pattern(clean_text)
        item_type == creation_match.item_type
        item_name == Strip(creation_match.name)
        locs == location_map(current_os, home)
        base_path == IF location_match[1] /\ location_match[2] \in DOMAIN locs
                     THEN locs[location_match[2]] ELSE "."
        full_path == os_path_join(current_os, base_path, item_name)
        dir == item_type \in {"folder", "directory"}
        command ==
            IF current_os = "Windows"
            THEN "New-Item -Path \"" \o full_path \o "\" -ItemType "
                     \o (IF dir THEN "Directory" ELSE "File")
            ELSE (IF dir THEN "mkdir" ELSE "touch") \o " \"" \o full_path \o "\""
    IN  IF creation_match.matched
        THEN [matched |-> TRUE, item_type |-> item_type, item_name |-> item_name,
              base_path |-> base_path, full_path |-> full_path, command |-> command]
        ELSE [matched |-> FALSE, item_type |-> "", item_name |-> "",
              base_path |-> "", full_path |-> "", command |-> ""]

(***************************************************************************)
(* call_ollama_model (Layer 3)                                             *)
(***************************************************************************)
\* line 170
NOT_ABLE_ECHO == "echo \"I am not able to generate a command for that request.\""

\* line 177: f"echo 'Error with LLM service: {e}'"
ErrorEcho(e) == "echo 'Error with LLM service: " \o e \o "'"

\* What ollama.chat and the reading response['message']['content'] can do:
\*   unreachable  ollama.chat raises ConnectionError
\*   raises       ollama.chat raises ResponseError
\*   no_message   the response has no 'message' (KeyError)
\*   no_content   the message has no 'content' (KeyError)
\*   content      the content is the string `content`
FailureReplies ==
    {[kind |-> "unreachable", content |-> "", error |-> "Failed to connect to Ollama."],
     [kind |-> "raises", content |-> "", error |-> "model 'phi3:mini' not found"],
     [kind |-> "no_message", content |-> "", error |-> "'message'"],
     [kind |-> "no_content", content |-> "", error |-> "'content'"]}

ContentReply(c) == [kind |-> "content", content |-> c, error |-> ""]

\* the try block closed after ollama.chat: reading response['message']['content'] raises
call_ollama_model_narrow_try(reply) ==
    IF reply.kind \in {"unreachable", "raises"}
    THEN [raised |-> FALSE, value |-> ErrorEcho(reply.error)]
    ELSE IF reply.kind # "content" THEN [raised |-> TRUE, value |-> ""]
    ELSE LET command == extract_command_from_output(reply.content)
         IN  IF command = "COMMAND_NOT_FOUND"
             THEN [raised |-> FALSE, value |-> NOT_ABLE_ECHO]
             ELSE [raised |-> FALSE, value |-> command]

\* lines 146-177: [raised, value]; every exception of the try block is caught
call_ollama_model(reply) ==
    IF reply.kind # "content"
    THEN [raised |-> FALSE, value |-> ErrorEcho(reply.error)]
    ELSE LET command == extract_command_from_output(reply.content)
         IN  IF command = "COMMAND_NOT_FOUND"
             THEN [raised |-> FALSE, value |-> NOT_ABLE_ECHO]
             ELSE [raised |-> FALSE, value |-> command]

(***************************************************************************)
(* The inputs                                                              *)
(***************************************************************************)
MaxArgs == 2

MaxPieces == 3

RECURSIVE SeqsUpTo(_, _)
\* the sequences over S of length at most n
SeqsUpTo(S, n) ==
    IF n = 0 THEN {<< >>}
    ELSE LET shorter == SeqsUpTo(S, n - 1)
         IN  shorter \cup {Append(q, x) : q \in shorter, x \in S}

RECURSIVE Concat(_)
Concat(pieces) == IF pieces = << >> THEN "" ELSE Head(pieces) \o Concat(Tail(pieces))

\* what the user may type first: every ALIAS_MAP key, and words no key covers
Heads == DOMAIN ALIAS_MAP \cup {"LS", "rm", "Dir"}

ArgWords == {"-a", "reports", "new-item"}

AliasTexts == {Join(" ", <<h>> \o a) : h \in Heads, a \in SeqsUpTo(ArgWords, MaxArgs)}

PaddedTexts == {"  ls  -a ", "\tpwd ", "mkdir   reports", " new-item  -itemtype file  a.txt"}

BlankTexts == {"", " ", "   ", "\t"}

CreationTexts ==
    {Concat(<<v, f, k, n, l>>) :
        v \in {"create", "make", "Create", "please make"},
        f \in {" ", " a ", " a new "},
        k \in Kinds,
        n \in {"", " named reports", " reports", " \"reports\"", " 'my reports'",
               " named notes.txt", " /tmp/x", " named file1", " '"},
        l \in {"", " on desktop", " on documents", " on downloads", " on Desktop",
               " on downloads on desktop", " in documents"}}

FreeTexts ==
    {"delete everything recursively", "what time is it", "show me ip address",
     "rm -rf /", "make me a sandwich", "create something on desktop"}

\* an alias followed by words of the user's own
PassThroughTexts == {"ls && rm -rf x", "mkdir format", "dir del"}

Texts ==
    AliasTexts \cup PaddedTexts \cup BlankTexts \cup CreationTexts \cup FreeTexts
        \cup PassThroughTexts

\* os.path.expanduser("~") on each platform
HomeDirs ==
    ("Windows" :> {"C:\\Users\\u", "C:\\Users\\u\\OneDrive"}) @@
    ("Linux" :> {"/home/u"}) @@ ("Darwin" :> {"/Users/u"})

BasicContents ==
    {"ls -la", "rm -rf /", "Remove-Item -Recurse -Force old_photos", "", "   ",
     "COMMAND_NOT_FOUND", "'COMMAND_NOT_FOUND'", "COMMAND_NOT_FOUND.",
     Fence \o " " \o Fence, Fence \o "bash\nrm -rf /\n" \o Fence,
     "I cannot do that.\nCOMMAND_NOT_FOUND", "Here you go:\nsudo reboot"}

BasicReplies == FailureReplies \cup {ContentReply(c) : c \in BasicContents}

ReplyPieces ==
    {Fence, "\n", "bash\n", "COMMAND_NOT_FOUND", "'", "rm -rf /", " ", "Sorry."}

RichContents == {Concat(q) : q \in SeqsUpTo(ReplyPieces, MaxPieces)}

RichReplies == FailureReplies \cup {ContentReply(c) : c \in RichContents}

\* responses with a tagged block inside prose, two blocks, a fence that is never
\* closed, several lines, blank lines
ExtractContents ==
    {"Here you go:\n" \o Fence \o "bash\nls -la\n" \o Fence \o "\nHope it helps.",
     Fence \o "\npwd\n" \o Fence \o " or " \o Fence \o "ls" \o Fence,
     Fence \o "bash\ncd x\nls\n" \o Fence,
     Fence \o "bash ls" \o Fence,
     Fence \o "bash\nls -la",
     "Use this:\n  ls -la  \n\n \n",
     "first\nsecond",
     Backtick \o "ls" \o Backtick \o ".",
     " \n\t\n "}

ExtractReplies == {ContentReply(c) : c \in ExtractContents}

(***************************************************************************)
(* State                                                                   *)
(***************************************************************************)
VARIABLES
    current_os,     \* platform.system()
    home_dir,       \* os.path.expanduser("~")
    text,           \* the argument of get_smart_command
    pc,             \* where get_smart_command is: layer1, layer2, layer3, returned, raised
    layers,         \* the layers evaluated so far, in order
    l2,             \* the locals of Layer 2 once it ran (Layer2's record)
    chat_calls,     \* the calls of ollama.chat so far
    reply,          \* what ollama.chat answered
    origin,         \* the layer that produced the result: alias, rule, generative
    result,         \* the returned string
    exception       \* the exception propagated to the caller, "" when none

resolverVars ==
    <<current_os, home_dir, text, pc, layers, l2, chat_calls, reply, origin, result, exception>>

VARIABLES
    value,                      \* Input.value of #user_input
    inflight,                   \* messages posted to the app and not handled yet, oldest first
    _updating_from_suggestion,  \* AIShellApp._updating_from_suggestion
    _autocomplete_debounce,     \* AIShellApp._autocomplete_debounce, the debounced_autocomplete task
    executor,                   \* the _generate_sync_suggestions calls running in the thread pool
    container_display,          \* #suggestion_container display
    list_visible,               \* SuggestionList._visible
    _suggestions,               \* SuggestionList._suggestions
    _cache,                     \* autocomplete_engine._cache, as its (key, list) items
    model_loaded,               \* _model and _tokenizer are not None
    gap,                        \* ticks since on_input_changed last ran, at most Window
    burst_last,                 \* history: the value carried by the last event of the current burst
    burst_task,                 \* history: the debounce task was created by an event of this burst
    burst_calls                 \* history: the texts suggest was called with for this burst

tuiVars ==
    <<value, inflight, _updating_from_suggestion, _autocomplete_debounce, executor,
      container_display, list_visible, _suggestions, _cache, model_loaded,
      gap, burst_last, burst_task, burst_calls>>

VARIABLES
    stored,          \* history: the (text, list) pairs suggest generated and stored since the last clear_cache
    last_call,       \* history: the last call of suggest, its arguments and its outcome
    exec_command,    \* the argument of execute_command
    world,           \* what the operating system does with the command
    exec_out,        \* how execute_command ended
    submit_pc,       \* where submit_message is: idle, resolving, executing
    user_input,      \* submit_message's user_input
    command_to_run,  \* submit_message's command_to_run
    output_log,      \* the lines written to #output_log by the last submission
    app,             \* the application: running, exited, crashed
    invoked,         \* history: the collaborators the last submission called
    uncaught,        \* the exception that left submit_message, "" when none
    task_pre         \* history: the pending debounce task was created before the last submission

VARIABLES
    input_disabled,  \* Input.disabled of #user_input
    placeholder,     \* Input.placeholder of #user_input: normal or listening
    listen_worker,   \* the listen_worker thread: none, running, posted, failed
    heard            \* what VoiceInterface.listen returned

VARIABLES
    _VS,             \* rag_engine._VS: None, or the loaded vector store
    rag_os,          \* platform.system().lower() as rag_answer reads it
    rag_call         \* history: the last call of rag_suggestions or rag_answer and its outcome

engineVars == <<stored, last_call>>

execVars == <<exec_command, world, exec_out>>

submitVars == <<submit_pc, user_input, command_to_run, output_log, app, invoked, uncaught>>

micVars == <<input_disabled, placeholder, listen_worker, heard>>

ragVars == <<_VS, rag_os, rag_call>>

sideVars == <<engineVars, execVars, submitVars, micVars, ragVars>>

vars == <<resolverVars, tuiVars, sideVars, task_pre>>

NoCall == [text |-> "", limit |-> 0, returned |-> << >>, generated |-> FALSE, failed |-> FALSE]

NoWorld == [shell_found |-> TRUE, resolved |-> TRUE, status |-> 0,
            stdout |-> "", stderr |-> "", decodable |-> TRUE]

NoAnswer == [rag |-> FALSE, answer |-> "", references |-> {}, suggestions |-> << >>]

NoRagCall == [function |-> "", question |-> "", k |-> 0, candidates |-> << >>,
              suggestions |-> << >>, answer |-> NoAnswer]

NoOut == [called |-> FALSE, started |-> FALSE, raised |-> FALSE, exception |-> "", value |-> ""]

\* nothing called yet in the engine, the shell core and submit_message
SideIdle ==
    /\ stored = {}
    /\ last_call = NoCall
    /\ exec_command = ""
    /\ world = NoWorld
    /\ exec_out = NoOut
    /\ submit_pc = "idle"
    /\ user_input = ""
    /\ command_to_run = ""
    /\ output_log = << >>
    /\ app = "running"
    /\ invoked = << >>
    /\ uncaught = ""
    /\ task_pre = FALSE
    /\ input_disabled = FALSE
    /\ placeholder = "normal"
    /\ listen_worker = "none"
    /\ heard = ""
    /\ _VS = "None"
    /\ rag_os = "linux"
    /\ rag_call = NoRagCall

\* the event loop is not inside submit_message (which never awaits) and the
\* application has not stopped
LoopFree == submit_pc = "idle" /\ app = "running"

\* asyncio.sleep(0.1), in ticks of 50 ms
Window == 2

\* no task yet: _autocomplete_debounce is None
NoTask == [state |-> "none", input_value |-> "", remaining |-> 0]

\* the application after __init__, compose and on_mount
Mounted ==
    /\ value = ""
    /\ inflight = << >>
    /\ _updating_from_suggestion = FALSE
    /\ _autocomplete_debounce = NoTask
    /\ executor = << >>
    /\ container_display = FALSE
    /\ list_visible = FALSE
    /\ _suggestions = << >>
    /\ _cache = {}
    /\ gap = Window
    /\ burst_last = ""
    /\ burst_task = FALSE
    /\ burst_calls = << >>

\* the application at rest, the autocomplete model loaded
TuiIdle == Mounted /\ model_loaded = TRUE

NoReply == [kind |-> "none", content |-> "", error |-> ""]

NoRule == [matched |-> FALSE, item_type |-> "", item_name |-> "",
           base_path |-> "", full_path |-> "", command |-> ""]

\* get_smart_command(text) has just been called
ResolverInit ==
    /\ current_os \in OSIdentity
    /\ home_dir \in HomeDirs[current_os]
    /\ text \in Texts
    /\ pc = "layer1"
    /\ layers = << >>
    /\ l2 = NoRule
    /\ chat_calls = 0
    /\ reply = NoReply
    /\ origin = "none"
    /\ result = ""
    /\ exception = ""

\* get_smart_command is not running
ResolverIdle ==
    /\ current_os = "Linux"
    /\ home_dir = "/home/u"
    /\ text = ""
    /\ pc = "idle"
    /\ layers = << >>
    /\ l2 = NoRule
    /\ chat_calls = 0
    /\ reply = NoReply
    /\ origin = "none"
    /\ result = ""
    /\ exception = ""

\* get_smart_command is not running, on any platform
ResolverIdleOn(os) ==
    /\ current_os = os
    /\ home_dir \in HomeDirs[os]
    /\ text = ""
    /\ pc = "idle"
    /\ layers = << >>
    /\ l2 = NoRule
    /\ chat_calls = 0
    /\ reply = NoReply
    /\ origin = "none"
    /\ result = ""
    /\ exception = ""

(***************************************************************************)
(* get_smart_command, step by step                                         *)
(***************************************************************************)
\* Layer 1 without its early return: a hit is recorded and Layer 2 runs all the same
AliasLookupFallsThrough ==
    /\ pc = "layer1"
    /\ layers' = Append(layers, 1)
    /\ Parts(text) # << >>
    /\ pc' = "layer2"
    /\ origin' = IF Layer1(text, current_os)[1] THEN "alias" ELSE origin
    /\ result' = IF Layer1(text, current_os)[1] THEN Layer1(text, current_os)[2] ELSE result
    /\ UNCHANGED <<current_os, home_dir, text, l2, chat_calls, reply, exception>>
    /\ UNCHANGED <<tuiVars, sideVars, task_pre>>

\* lines 49-59
AliasLookup ==
    /\ pc = "layer1"
    /\ layers' = Append(layers, 1)
    /\ IF Parts(text) = << >>
       THEN \* parts[0] on the empty list
            /\ pc' = "raised"
            /\ exception' = "IndexError"
            /\ UNCHANGED <<origin, result>>
       ELSE LET hit == Layer1(text, current_os)
            IN  /\ pc' = IF hit[1] THEN "returned" ELSE "layer2"
                /\ origin' = IF hit[1] THEN "alias" ELSE origin
                /\ result' = IF hit[1] THEN hit[2] ELSE result
                /\ UNCHANGED exception
    /\ UNCHANGED <<current_os, home_dir, text, l2, chat_calls, reply>>
    /\ UNCHANGED <<tuiVars, sideVars, task_pre>>

\* lines 63-96
CreateRule ==
    /\ pc = "layer2"
    /\ layers' = Append(layers, 2)
    /\ l2' = Layer2(text, current_os, home_dir)
    /\ pc' = IF l2'.matched THEN "returned" ELSE "layer3"
    /\ origin' = IF l2'.matched THEN "rule" ELSE origin
    /\ result' = IF l2'.matched THEN l2'.command ELSE result
    /\ UNCHANGED <<current_os, home_dir, text, chat_calls, reply, exception>>
    /\ UNCHANGED <<tuiVars, sideVars, task_pre>>

\* lines 99-100 and call_ollama_model: one ollama.chat call answering r
LlmFallback(r) ==
    /\ pc = "layer3"
    /\ layers' = Append(layers, 3)
    /\ chat_calls' = chat_calls + 1
    /\ reply' = r
    /\ LET out == call_ollama_model(r)
       IN  /\ pc' = IF out.raised THEN "raised" ELSE "returned"
           /\ exception' = IF out.raised THEN "Exception" ELSE exception
           /\ result' = IF out.raised THEN result ELSE out.value
           /\ origin' = IF out.raised THEN origin ELSE "generative"
    /\ UNCHANGED <<current_os, home_dir, text, l2>>
    /\ UNCHANGED <<tuiVars, sideVars, task_pre>>

ResolverNext ==
    \/ AliasLookup
    \/ CreateRule
    \/ \E r \in BasicReplies : LlmFallback(r)

Init == ResolverInit /\ TuiIdle /\ SideIdle

Next == ResolverNext

Spec == Init /\ [][Next]_vars

\* call_ollama_model called for a text that Layers 1 and 2 declined
Layer3Texts == {"delete everything recursively", "what time is it"}

Layer3Init ==
    /\ current_os \in OSIdentity
    /\ home_dir \in HomeDirs[current_os]
    /\ text \in Layer3Texts
    /\ pc = "layer3"
    /\ layers = <<1, 2>>
    /\ l2 = NoRule
    /\ chat_calls = 0
    /\ reply = NoReply
    /\ origin = "none"
    /\ result = ""
    /\ exception = ""
    /\ TuiIdle
    /\ SideIdle

Layer3Next == \E r \in RichReplies \cup ExtractReplies : LlmFallback(r)

SpecLayer3 == Layer3Init /\ [][Layer3Next]_vars

(***************************************************************************)
(* Properties of the resolver                                              *)
(***************************************************************************)
IsPrefix(a, b) == Len(a) <= Len(b) /\ SubSeq(b, 1, Len(a)) = a

\* the command call_ollama_model extracted from the reply it got
ExtractedCommand == extract_command_from_output(reply.content)

\* C1: when the command extracted from the collaborator's response matches a
\* SafetyGate pattern, get_smart_command does not return that literal command.
C1_GateBlocksDangerous ==
    (pc = "returned" /\ origin = "generative" /\ reply.kind = "content"
        /\ looks_dangerous(ExtractedCommand))
    => result # ExtractedCommand

\* C2: the layers run in order and short-circuit: Layer 2 is evaluated only after
\* Layer 1 produced nothing, ollama.chat is called only after Layers 1 and 2 both
\* produced nothing, and at most once.
C2_LayersInOrder ==
    /\ IsPrefix(layers, <<1, 2, 3>>)
    /\ InList(2, layers) => ~Layer1(text, current_os)[1]
    /\ chat_calls <= 1
    /\ chat_calls = 1 =>
          /\ layers = <<1, 2, 3>>
          /\ ~Layer1(text, current_os)[1]
          /\ ~Layer2(text, current_os, home_dir).matched
    /\ InList(3, layers) => chat_calls = 1

C2_Witness == pc = "returned" /\ chat_calls = 1 /\ layers = <<1, 2, 3>> /\ origin = "generative"

\* C3: for every key t of ALIAS_MAP and arguments args, get_smart_command(t + ' ' + args)
\* returns COMMAND_MAP[concept][OS] + ' ' + args from Layer 1.
C3_AliasTranslatesEveryKey ==
    pc # "layer1" =>
        \A t \in DOMAIN ALIAS_MAP : \A a \in SeqsUpTo(ArgWords, MaxArgs) \ {<< >>} :
            (text = t \o " " \o Join(" ", a)
                /\ current_os \in DOMAIN COMMAND_MAP[ALIAS_MAP[t]])
            => /\ pc = "returned"
               /\ origin = "alias"
               /\ result = COMMAND_MAP[ALIAS_MAP[t]][current_os] \o " " \o Join(" ", a)

\* C4: a request '(create|make) ... (file|folder|directory) named <name> [on <location>]'
\* targets the base directory joined with <name>.
C4_CreationTargetsRequestedName ==
    \A name \in {"reports", "notes.txt"} :
        (origin = "rule" /\ Contains(text, " named " \o name))
        => l2.full_path = os_path_join(current_os, l2.base_path, name)

\* os.path.dirname of the running platform
BaseDirOf(path) ==
    LET seps == IF current_os = "Windows" THEN {"\\", "/"} ELSE {"/"}
        drive == IF current_os = "Windows" /\ Len(path) >= 2 /\ Ch(path, 2) = ":" THEN 2 ELSE 0
        cuts == {i \in (drive + 1)..Len(path) : Ch(path, i) \in seps}
        last == IF cuts = {} THEN drive ELSE CHOOSE a \in cuts : \A b \in cuts : a >= b
        \* the head without its trailing separators, unless it is separators only
        keep == {i \in (drive + 1)..last : Ch(path, i) \notin seps}
        stop == IF keep = {} THEN last ELSE CHOOSE a \in keep : \A b \in keep : a >= b
    IN  SubSeq(path, 1, stop)

\* the location phrases 'on <keyword>' the input holds
LocationPhrases == {w \in LocationKeywords : Contains(Lower(text), "on " \o w)}

FirstIndexOf(s, p) == CHOOSE i \in 1..Len(s) : StartsAt(s, i, p) /\ \A j \in 1..(i - 1) : ~StartsAt(s, j, p)

\* the keyword of the first location phrase of the input
FirstLocation ==
    CHOOSE w \in LocationPhrases : \A v \in LocationPhrases :
        FirstIndexOf(Lower(text), "on " \o w) <= FirstIndexOf(Lower(text), "on " \o v)

\* C5 as stated: whenever the creation pattern matches, the base directory of the
\* emitted path is the location table's path of a location phrase the input holds,
\* and '.' when it holds none.
C5_BaseDirectoryAlways ==
    origin = "rule" =>
        IF LocationPhrases = {} THEN BaseDirOf(l2.full_path) = "."
        ELSE \E w \in LocationPhrases :
                BaseDirOf(l2.full_path) = location_map(current_os, home_dir)[w]

StartsWithSeparator(name) ==
    name # "" /\ Ch(name, 1) \in (IF current_os = "Windows" THEN {"\\", "/"} ELSE {"/"})

\* C5 amended: whenever the creation pattern matches and the captured name does not
\* begin with a path separator, the base directory of the emitted path is the location
\* table's path of the first location phrase of the input, and '.' when it holds none.
C5_BaseDirectoryUnlessRootedName ==
    (origin = "rule" /\ ~StartsWithSeparator(l2.item_name)) =>
        BaseDirOf(l2.full_path) =
            IF LocationPhrases = {} THEN "."
            ELSE location_map(current_os, home_dir)[FirstLocation]

C5_Witness ==
    /\ origin = "rule"
    /\ text = "make a new folder \"reports\" on downloads on desktop"
    /\ l2.full_path = os_path_join(current_os, location_map(current_os, home_dir)["downloads"], "r")

\* C6: for empty or whitespace-only text get_smart_command does not raise and
\* triggers no layer.
C6_BlankInputIsNoOp ==
    Strip(text) = "" =>
        /\ exception = ""
        /\ origin = "none"
        /\ l2 = NoRule
        /\ chat_calls = 0

C8_ResultNeverEmpty == (pc = "returned" /\ Strip(text) # "") => result # ""

\* the ways a reply carries the COMMAND_NOT_FOUND sentinel: bare, quoted, in a code
\* block, on the last line of a longer reply
SentinelReplies ==
    {"COMMAND_NOT_FOUND", "'COMMAND_NOT_FOUND'",
     Fence \o "COMMAND_NOT_FOUND" \o Fence, "Sorry.\nCOMMAND_NOT_FOUND"}

\* C9: whenever the reply carries the sentinel, call_ollama_model returns the fixed
\* diagnostic echo, never the sentinel text.
C9_SentinelNeverReturned ==
    (pc = "returned" /\ reply.kind = "content" /\ reply.content \in SentinelReplies)
    => result = NOT_ABLE_ECHO

\* positions of the fences of a response
FenceAt(c) == {i \in 1..Len(c) : StartsAt(c, i, Fence)}

\* a fenced code block: an opening fence and a closing fence after it
HasFencedBlock(c) == \E i, j \in FenceAt(c) : j >= i + 3

\* the text between the fences of the first block, without the line that names
\* the language
FirstFencedBlock(c) ==
    LET open == CHOOSE i \in FenceAt(c) :
                    /\ \E j \in FenceAt(c) : j >= i + 3
                    /\ \A k \in FenceAt(c) : (\E j \in FenceAt(c) : j >= k + 3) => i <= k
        b == open + 3
        n == CHOOSE x \in b..(Len(c) + 1) :
                    /\ \A k \in b..(x - 1) : IsWordChar(Ch(c, k))
                    /\ x = Len(c) + 1 \/ ~IsWordChar(Ch(c, x))
        from == IF n > b /\ n <= Len(c) /\ Ch(c, n) = "\n" THEN n + 1 ELSE b
        close == CHOOSE j \in FenceAt(c) : j >= from /\ \A k \in FenceAt(c) : k >= from => j <= k
    IN  SubSeq(c, from, close - 1)

\* the line of c that starts after position a (0, or the position of a newline)
LineAfter(c, a) ==
    LET ends == {e \in (a + 1)..(Len(c) + 1) : e = Len(c) + 1 \/ Ch(c, e) = "\n"}
        e == CHOOSE x \in ends : \A y \in ends : x <= y
    IN  SubSeq(c, a + 1, e - 1)

LineStarts(c) == {0} \cup {i \in 1..Len(c) : Ch(c, i) = "\n"}

NonEmptyLineStarts(c) == {a \in LineStarts(c) : Strip(LineAfter(c, a)) # ""}

LastNonEmptyLine(c) ==
    LET a == CHOOSE x \in NonEmptyLineStarts(c) : \A y \in NonEmptyLineStarts(c) : y <= x
    IN  Strip(LineAfter(c, a))

\* the response without backticks, trailing punctuation and surrounding blanks
Sanitized(c) == RStripChars(Strip(RemoveChar(c, Backtick)), {".", ",", "!", "?", ";", ":"})

\* C22: the command extracted from a response is the trimmed content of its
\* first fenced code block; without a block it is the last non-empty line; without
\* a non-empty line it is the sanitized response
C22_ExtractionPriority ==
    (pc = "returned" /\ reply.kind = "content") =>
        ExtractedCommand =
            IF HasFencedBlock(reply.content) THEN Strip(FirstFencedBlock(reply.content))
            ELSE IF NonEmptyLineStarts(reply.content) # {} THEN LastNonEmptyLine(reply.content)
            ELSE Sanitized(reply.content)

\* a tagged block inside prose was extracted
C22_Witness ==
    /\ pc = "returned"
    /\ reply.content = "Here you go:\n" \o Fence \o "bash\nls -la\n" \o Fence \o "\nHope it helps."
    /\ result = "ls -la"

\* C21: no command returned by Layer 1 or Layer 2 matches a SafetyGate pattern
C21_FixedLayersNeverDangerous ==
    (pc = "returned" /\ origin \in {"alias", "rule"}) => ~looks_dangerous(result)

\* where the kind word k occurs in the lower-cased request
KindOccurrences(k) == {i \in 1..Len(text) : StartsAt(Lower(text), i, k)}

\* the kind the request names: the first of the kind words in the text
RequestedKind ==
    CHOOSE k \in Kinds :
        \E i \in KindOccurrences(k) :
            \A k2 \in Kinds : \A j \in KindOccurrences(k2) : i <= j

\* the returned command creates a directory
CreatesDirectory ==
    IF current_os = "Windows" THEN Contains(result, "-ItemType Directory")
    ELSE IsPrefix("mkdir ", result)

\* the returned command creates a file
CreatesFile ==
    IF current_os = "Windows" THEN Contains(result, "-ItemType File")
    ELSE IsPrefix("touch ", result)

\* C23: the creation command of Layer 2 creates a directory when the request
\* names a folder or a directory and a file when it names a file, whatever the
\* name of the item
C23_CreationKindMatchesRequest ==
    (pc = "returned" /\ origin = "rule") =>
        IF RequestedKind \in {"folder", "directory"}
        THEN CreatesDirectory /\ ~CreatesFile
        ELSE CreatesFile /\ ~CreatesDirectory

(***************************************************************************)
(* tui_app.py and autocomplete_engine.py: the debounced autocomplete       *)
(*                                                                         *)
(* Time advances in ticks.  A message posted to the application is handled *)
(* in a later step of the event loop, so a value may have changed while    *)
(* the event that announces it is still queued.                            *)
(***************************************************************************)
MaxInFlight == 2

MaxJobs == 2

\* what the user can make of the input field
InputValues == {"", " ", "a", "ab"}

\* what model.generate can decode to, stripped and without duplicates (lines 77-85)
GenOutputs == {<< >>, <<"ab">>, <<"a", "ab">>}

\* limit=6 of suggest(text, limit=6)
limit == 6

Blank(s) == Strip(s) = ""

ChangedBy(v, cause) == [type |-> "Changed", value |-> v, cause |-> cause]

\* Input.Changed posted because the user edited the field
Changed(v) == ChangedBy(v, "key")

Selected(v) == [type |-> "Selected", value |-> v]

Sleeping(v) == [state |-> "sleeping", input_value |-> v, remaining |-> Window]

Finished(state) == [state |-> state, input_value |-> "", remaining |-> 0]

Pending(task) == task.state \in {"sleeping", "generating"}

\* Task.cancel() on a task that is not done
Cancel(task) == IF Pending(task) THEN Finished("cancelled") ELSE task

\* the executor goes on with a call whose awaiting task was cancelled
Abandon(jobs) == [i \in DOMAIN jobs |-> [jobs[i] EXCEPT !.awaited = FALSE]]

RemoveAt(seq, i) == SubSeq(seq, 1, i - 1) \o SubSeq(seq, i + 1, Len(seq))

\* the cache key without its normalisation
CacheKeyRaw(t) == t

\* key = text.strip().lower()
CacheKey(t) == Lower(Strip(t))

Cached(key) == \E e \in _cache : e[1] = key

CacheGet(key) == (CHOOSE e \in _cache : e[1] = key)[2]

CachePut(key, list) == {e \in _cache : e[1] # key} \cup {<<key, list>>}

\* SuggestionList.update_suggestions keeps the non-blank entries
NonBlank(list) == SelectSeq(list, LAMBDA x : ~Blank(x))

\* hide_suggestions
hide_suggestions ==
    /\ container_display' = FALSE
    /\ list_visible' = FALSE
    /\ UNCHANGED _suggestions

\* update_autocomplete_suggestions once suggest has returned (lines 177-196)
ShowSuggestions(suggestions) ==
    IF Blank(value) \/ suggestions = << >>
    THEN hide_suggestions
    ELSE /\ _suggestions' = NonBlank(suggestions)
         /\ list_visible' = (NonBlank(suggestions) # << >>)
         /\ container_display' = TRUE

\* a history step: suggest is called with t by the task of the current burst
\* (the first two calls are kept)
Called(t) ==
    IF burst_task /\ Len(burst_calls) < 2
    THEN Append(burst_calls, t)
    ELSE burst_calls

\* NUM_BEAMS of the engine
NUM_BEAMS == 6

\* outs: model.generate returns min(num_return_sequences, NUM_BEAMS) sequences
\* (lines 67-76)
outs(num_return_sequences, decoded) == SliceTo(decoded, Min(num_return_sequences, NUM_BEAMS))

\* results: each decoded sequence stripped (line 77)
StripAll(seq) == [i \in DOMAIN seq |-> Strip(seq[i])]

RECURSIVE DedupeFrom(_, _)
\* lines 79-84 with seen as the list built so far
DedupeFrom(results, deduped) ==
    IF results = << >> THEN deduped
    ELSE DedupeFrom(Tail(results),
                    IF Head(results) # "" /\ ~InList(Head(results), deduped)
                    THEN Append(deduped, Head(results))
                    ELSE deduped)

\* the loop without the test of seen
KeepAll(results) == SelectSeq(results, LAMBDA x : x # "")

\* lines 78-85
Dedupe(results) == DedupeFrom(results, << >>)

\* _generate_sync_suggestions(text, num_return_sequences) when the beams of
\* model.generate decode to decoded
_generate_sync_suggestions(t, num_return_sequences, decoded) ==
    IF Blank(t) \/ ~model_loaded
    THEN << >>
    ELSE Dedupe(StripAll(outs(num_return_sequences, decoded)))

\* _generate_sync_suggestions(text, num_return_sequences) when the tokenizer or
\* model.generate raises (lines 86-88)
_generate_sync_suggestions_raises == << >>

\* the post-filter of suggest (lines 116-124): every non-empty suggestion is kept
filtered(suggestions) == SelectSeq(suggestions, LAMBDA x : x # "")

\* a key press or a paste in #user_input: the value changes and Input.Changed is posted
Type(v) ==
    /\ LoopFree
    /\ v # value
    /\ Len(inflight) < MaxInFlight
    /\ value' = v
    /\ inflight' = Append(inflight, Changed(v))
    /\ UNCHANGED <<_updating_from_suggestion, _autocomplete_debounce, executor,
                   container_display, list_visible, _suggestions, _cache, model_loaded,
                   gap, burst_last, burst_task, burst_calls>>
    /\ UNCHANGED <<resolverVars, sideVars, task_pre>>

\* on_input_changed (lines 110-158) for the oldest message
on_input_changed ==
    /\ LoopFree
    /\ inflight # << >>
    /\ Head(inflight).type = "Changed"
    /\ LET input_value == Head(inflight).value
           fresh == gap >= Window
       IN  /\ inflight' = Tail(inflight)
           /\ gap' = 0
           /\ burst_last' = input_value
           /\ burst_calls' = IF fresh THEN << >> ELSE burst_calls
           /\ IF _updating_from_suggestion
              THEN \* lines 114-116: the flag is reset and nothing else happens
                   /\ _updating_from_suggestion' = FALSE
                   /\ burst_task' = (burst_task /\ ~fresh)
                   /\ UNCHANGED <<_autocomplete_debounce, executor,
                                  container_display, list_visible, _suggestions>>
              ELSE /\ UNCHANGED _updating_from_suggestion
                   \* lines 119-123
                   /\ executor' = IF _autocomplete_debounce.state = "generating"
                                  THEN Abandon(executor) ELSE executor
                   /\ IF Blank(input_value)
                      THEN \* lines 131-133
                           /\ hide_suggestions
                           /\ _autocomplete_debounce' = Cancel(_autocomplete_debounce)
                           /\ burst_task' = (burst_task /\ ~fresh)
                      ELSE \* line 155
                           /\ _autocomplete_debounce' = Sleeping(input_value)
                           /\ burst_task' = TRUE
                           /\ UNCHANGED <<container_display, list_visible, _suggestions>>
    /\ UNCHANGED <<value, _cache, model_loaded>>
    /\ task_pre' = (task_pre /\ _updating_from_suggestion)
    /\ UNCHANGED <<resolverVars, sideVars>>

\* debounced_autocomplete after its sleep (lines 139-146), update_autocomplete_suggestions
\* and suggest up to the await of run_in_executor
debounced_autocomplete ==
    /\ LoopFree
    /\ _autocomplete_debounce.state = "sleeping"
    /\ _autocomplete_debounce.remaining = 0
    /\ LET input_value == _autocomplete_debounce.input_value
           key == CacheKey(input_value)
       IN  IF Blank(value)
           THEN /\ hide_suggestions
                /\ _autocomplete_debounce' = Finished("done")
                /\ UNCHANGED <<executor, burst_calls>>
           ELSE IF value # input_value
           THEN /\ _autocomplete_debounce' = Finished("done")
                /\ UNCHANGED <<executor, burst_calls,
                               container_display, list_visible, _suggestions>>
           ELSE /\ burst_calls' = Called(input_value)
                /\ IF ~model_loaded
                   THEN /\ ShowSuggestions(<< >>)
                        /\ _autocomplete_debounce' = Finished("done")
                        /\ UNCHANGED executor
                   ELSE IF Cached(key)
                   THEN /\ ShowSuggestions(SliceTo(CacheGet(key), limit))
                        /\ _autocomplete_debounce' = Finished("done")
                        /\ UNCHANGED executor
                   ELSE /\ Len(executor) < MaxJobs
                        /\ executor' = Append(executor, [text |-> input_value, awaited |-> TRUE])
                        /\ _autocomplete_debounce' =
                               [state |-> "generating", input_value |-> input_value, remaining |-> 0]
                        /\ UNCHANGED <<container_display, list_visible, _suggestions>>
    /\ UNCHANGED <<value, inflight, _updating_from_suggestion, _cache, model_loaded,
                   gap, burst_last, burst_task>>
    /\ task_pre' = (task_pre /\ Pending(_autocomplete_debounce'))
    /\ UNCHANGED <<resolverVars, sideVars>>

\* the i-th call in the executor returns; suggest and update_autocomplete_suggestions
\* go on when their task still awaits it (lines 116-127 of the engine, 177-196 of the app)
run_in_executor(i, decoded) ==
    /\ app = "running"
    /\ i \in DOMAIN executor
    /\ LET job == executor[i]
           suggestions == filtered(_generate_sync_suggestions(job.text, limit, decoded))
       IN  /\ job.awaited => LoopFree
           /\ executor' = RemoveAt(executor, i)
           /\ IF job.awaited
              THEN /\ _cache' = CachePut(CacheKey(job.text), suggestions)
                   /\ ShowSuggestions(SliceTo(suggestions, limit))
                   /\ _autocomplete_debounce' = Finished("done")
              ELSE UNCHANGED <<_cache, _autocomplete_debounce,
                               container_display, list_visible, _suggestions>>
    /\ UNCHANGED <<value, inflight, _updating_from_suggestion, model_loaded,
                   gap, burst_last, burst_task, burst_calls>>
    /\ task_pre' = (task_pre /\ Pending(_autocomplete_debounce'))
    /\ UNCHANGED <<resolverVars, sideVars>>

\* SuggestionList.on_option_list_option_selected: the user picks the i-th suggestion
on_option_list_option_selected(i) ==
    /\ LoopFree
    /\ container_display
    /\ list_visible
    /\ i \in DOMAIN _suggestions
    /\ Len(inflight) < MaxInFlight
    /\ inflight' = Append(inflight, Selected(_suggestions[i]))
    /\ list_visible' = FALSE
    /\ UNCHANGED <<value, _updating_from_suggestion, _autocomplete_debounce, executor,
                   container_display, _suggestions, _cache, model_loaded,
                   gap, burst_last, burst_task, burst_calls>>
    /\ UNCHANGED <<resolverVars, sideVars, task_pre>>

\* on_suggestion_list_selected (lines 215-228); Input posts Changed when its value changes
on_suggestion_list_selected ==
    /\ LoopFree
    /\ inflight # << >>
    /\ Head(inflight).type = "Selected"
    /\ LET suggestion == Head(inflight).value
       IN  /\ _updating_from_suggestion' = TRUE
           /\ value' = suggestion
           /\ inflight' = IF suggestion # value
                          THEN Append(Tail(inflight), ChangedBy(suggestion, "selection"))
                          ELSE Tail(inflight)
           /\ hide_suggestions
    /\ UNCHANGED <<_autocomplete_debounce, executor, _cache, model_loaded,
                   gap, burst_last, burst_task, burst_calls>>
    /\ UNCHANGED <<resolverVars, sideVars, task_pre>>

\* on_key, escape while the suggestions are shown (lines 265-271)
on_key_escape ==
    /\ LoopFree
    /\ container_display
    /\ list_visible
    /\ hide_suggestions
    /\ UNCHANGED <<value, inflight, _updating_from_suggestion, _autocomplete_debounce,
                   executor, _cache, model_loaded,
                   gap, burst_last, burst_task, burst_calls>>
    /\ UNCHANGED <<resolverVars, sideVars, task_pre>>

\* 50 ms pass; a sleep that is over wakes its task before more time passes
Tick ==
    /\ app = "running"
    /\ ~(_autocomplete_debounce.state = "sleeping" /\ _autocomplete_debounce.remaining = 0)
    /\ gap < Window \/ _autocomplete_debounce.state = "sleeping"
    /\ gap' = Min(gap + 1, Window)
    /\ _autocomplete_debounce' =
           IF _autocomplete_debounce.state = "sleeping"
           THEN [_autocomplete_debounce EXCEPT !.remaining = @ - 1]
           ELSE _autocomplete_debounce
    /\ UNCHANGED <<value, inflight, _updating_from_suggestion, executor,
                   container_display, list_visible, _suggestions, _cache, model_loaded,
                   burst_last, burst_task, burst_calls>>
    /\ UNCHANGED <<resolverVars, sideVars, task_pre>>

TuiInit == ResolverIdle /\ Mounted /\ model_loaded \in BOOLEAN /\ SideIdle

(***************************************************************************)
(* autocomplete_engine.py: suggest and clear_cache, called one after the   *)
(* other                                                                   *)
(***************************************************************************)
EngineTexts == {"a", "A", " a ", "ab", " "}

Limits == {1, limit}

\* suggest(text, limit) run to its return, the beams decoding to decoded
suggest(t, lim, decoded) ==
    LET key == CacheKey(t)
        suggestions == filtered(_generate_sync_suggestions(t, lim, decoded))
    IN  IF Blank(t) \/ ~model_loaded
        THEN [returned |-> << >>, generated |-> FALSE, cache |-> _cache]
        ELSE IF Cached(key)
        THEN [returned |-> SliceTo(CacheGet(key), lim), generated |-> FALSE, cache |-> _cache]
        ELSE [returned |-> SliceTo(suggestions, lim), generated |-> TRUE,
              cache |-> CachePut(key, suggestions)]

Suggest(t, lim, decoded) ==
    /\ LET r == suggest(t, lim, decoded)
       IN  /\ _cache' = r.cache
           /\ last_call' = [text |-> t, limit |-> lim, returned |-> r.returned,
                            generated |-> r.generated, failed |-> FALSE]
           /\ stored' = IF r.generated
                        THEN stored \cup {<<t, filtered(_generate_sync_suggestions(t, lim, decoded)),
                                            outs(lim, decoded)>>}
                        ELSE stored
    /\ UNCHANGED <<value, inflight, _updating_from_suggestion, _autocomplete_debounce, executor,
                   container_display, list_visible, _suggestions, model_loaded,
                   gap, burst_last, burst_task, burst_calls>>
    /\ UNCHANGED <<resolverVars, execVars, submitVars, micVars, ragVars, task_pre>>

\* suggest(text, limit) run to its return when the generation it starts raises
\* inside _generate_sync_suggestions
SuggestGenerationFails(t, lim) ==
    /\ ~Blank(t)
    /\ model_loaded
    /\ ~Cached(CacheKey(t))
    /\ _cache' = CachePut(CacheKey(t), filtered(_generate_sync_suggestions_raises))
    /\ last_call' = [text |-> t, limit |-> lim,
                     returned |-> SliceTo(filtered(_generate_sync_suggestions_raises), lim),
                     generated |-> TRUE, failed |-> TRUE]
    /\ stored' = stored \cup {<<t, filtered(_generate_sync_suggestions_raises), << >>>>}
    /\ UNCHANGED <<value, inflight, _updating_from_suggestion, _autocomplete_debounce, executor,
                   container_display, list_visible, _suggestions, model_loaded,
                   gap, burst_last, burst_task, burst_calls>>
    /\ UNCHANGED <<resolverVars, execVars, submitVars, micVars, ragVars, task_pre>>

\* clear_cache (lines 131-132)
clear_cache ==
    /\ _cache' = {}
    /\ stored' = {}
    /\ last_call' = NoCall
    /\ UNCHANGED <<value, inflight, _updating_from_suggestion, _autocomplete_debounce, executor,
                   container_display, list_visible, _suggestions, model_loaded,
                   gap, burst_last, burst_task, burst_calls>>
    /\ UNCHANGED <<resolverVars, execVars, submitVars, micVars, ragVars, task_pre>>

EngineInit == ResolverIdle /\ Mounted /\ model_loaded \in BOOLEAN /\ SideIdle

\* what the beams decode to: also with blanks around a result, an empty result
\* and the same result twice
EngineOutputs == GenOutputs \cup {<<"ab", "", "ab ", "a", "ab">>, <<" a", "a">>}

EngineNext ==
    \/ \E t \in EngineTexts, lim \in Limits, decoded \in EngineOutputs : Suggest(t, lim, decoded)
    \/ \E t \in EngineTexts, lim \in Limits : SuggestGenerationFails(t, lim)
    \/ clear_cache

SpecEngine == EngineInit /\ [][EngineNext]_vars

(***************************************************************************)
(* shell_core.py: execute_command                                          *)
(***************************************************************************)
ExecCommands == {"", " ", "ls -l", "nosuchcmd arg", "exit 3"}

\* the name the shell looks up
ExecutableName(command) == IF Split(command) = << >> THEN "" ELSE Split(command)[1]

\* what the shell writes when it cannot resolve the name, and its exit status
NotResolvedStderr(os, name) ==
    IF os = "Windows"
    THEN name \o " : The term '" \o name \o "' is not recognized as the name of a cmdlet"
    ELSE "/bin/sh: 1: " \o name \o ": not found\n"

NotResolvedStatus(os) == IF os = "Windows" THEN 1 ELSE 127

\* what subprocess.run can meet: powershell.exe or /bin/sh missing, the name not
\* resolved by the shell, an exit status with captured output, output that is
\* not UTF-8
Worlds(command, os) ==
    {w \in [shell_found : BOOLEAN, resolved : BOOLEAN, status : {0, 1, 3, 127},
            stdout : {"", "out\n"},
            stderr : {"", "err\n", NotResolvedStderr(os, ExecutableName(command))},
            decodable : BOOLEAN] :
        /\ ~w.shell_found => w = [NoWorld EXCEPT !.shell_found = FALSE]
        /\ ~w.resolved => /\ ExecutableName(command) \notin {"", "exit", "ls"}
                          /\ w.shell_found
                          /\ w.status = NotResolvedStatus(os)
                          /\ w.stdout = ""
                          /\ w.stderr = NotResolvedStderr(os, ExecutableName(command))
        /\ (w.shell_found /\ w.resolved) =>
               /\ ExecutableName(command) # "nosuchcmd"
               /\ w.status \in {0, 1, 3}
               /\ w.stderr \in {"", "err\n"}
               /\ (ExecutableName(command) = "exit") => (w.status = 3 /\ w.stdout = "")
        \* output that cannot be decoded has no text
        /\ ~w.decodable => (w.shell_found /\ w.resolved /\ w.stdout = "" /\ w.stderr = "")}

\* execute_command(command) in world w (lines 5-33)
execute_command(command, os, w) ==
    IF command = ""
    THEN [called |-> TRUE, started |-> FALSE, raised |-> FALSE, exception |-> "",
          value |-> "No command to execute."]
    ELSE IF ~w.shell_found
    THEN \* FileNotFoundError, then command.split()[0]
         IF Split(command) = << >>
         THEN [called |-> TRUE, started |-> FALSE, raised |-> TRUE,
               exception |-> "IndexError", value |-> ""]
         ELSE [called |-> TRUE, started |-> FALSE, raised |-> FALSE, exception |-> "",
               value |-> "Command not found: " \o Split(command)[1]]
    ELSE IF ~w.decodable
    THEN \* text=True, encoding='utf-8': the captured bytes are decoded strictly
         [called |-> TRUE, started |-> TRUE, raised |-> TRUE,
          exception |-> "UnicodeDecodeError", value |-> ""]
    ELSE IF w.status # 0
    THEN \* check=True: CalledProcessError, caught at line 30
         [called |-> TRUE, started |-> TRUE, raised |-> FALSE, exception |-> "",
          value |-> w.stderr]
    ELSE [called |-> TRUE, started |-> TRUE, raised |-> FALSE, exception |-> "",
          value |-> w.stdout]

ExecInit ==
    /\ \E os \in OSIdentity : ResolverIdleOn(os)
    /\ Mounted
    /\ model_loaded = TRUE
    /\ stored = {}
    /\ last_call = NoCall
    /\ exec_command \in ExecCommands
    /\ world \in Worlds(exec_command, current_os)
    /\ exec_out = NoOut
    /\ submit_pc = "idle"
    /\ user_input = ""
    /\ command_to_run = ""
    /\ output_log = << >>
    /\ app = "running"
    /\ invoked = << >>
    /\ uncaught = ""
    /\ task_pre = FALSE
    /\ input_disabled = FALSE
    /\ placeholder = "normal"
    /\ listen_worker = "none"
    /\ heard = ""
    /\ _VS = "None"
    /\ rag_os = "linux"
    /\ rag_call = NoRagCall

Execute ==
    /\ ~exec_out.called
    /\ exec_out' = execute_command(exec_command, current_os, world)
    /\ UNCHANGED <<exec_command, world>>
    /\ UNCHANGED <<resolverVars, tuiVars, engineVars, submitVars, micVars, ragVars, task_pre>>

ExecNext == Execute

SpecExec == ExecInit /\ [][ExecNext]_vars

(***************************************************************************)
(* tui_app.py: on_input_submitted and submit_message                       *)
(*                                                                         *)
(* submit_message never awaits: from its first line to its return the      *)
(* event loop runs nothing else.  The calls it waits for (ollama.chat in   *)
(* get_smart_command, the process in execute_command) are the steps        *)
(* "resolving" and "executing".  A line of the log is the template written *)
(* and its argument.                                                       *)
(***************************************************************************)
Submitted == [type |-> "Submitted", value |-> ""]

Line(kind, t) == [kind |-> kind, text |-> t]

\* line 291
clean_input(u) == RStripChars(Lower(Strip(u)), {".", ",", "!", "?"})

\* get_smart_command(text) when ollama.chat, if it is called, answers r
get_smart_command(t, os, home, r) ==
    IF Parts(t) = << >>
    THEN [raised |-> TRUE, value |-> ""]
    ELSE IF Layer1(t, os)[1]
    THEN [raised |-> FALSE, value |-> Layer1(t, os)[2]]
    ELSE IF Layer2(t, os, home).matched
    THEN [raised |-> FALSE, value |-> Layer2(t, os, home).command]
    ELSE call_ollama_model(r)

\* Layers 1 and 2 decline the text
ReachesLayer3(t, os, home) ==
    /\ Parts(t) # << >>
    /\ ~Layer1(t, os)[1]
    /\ ~Layer2(t, os, home).matched

\* Enter in the input field or the Send button
PressEnter ==
    /\ LoopFree
    /\ Len(inflight) < MaxInFlight
    /\ inflight' = Append(inflight, Submitted)
    /\ UNCHANGED <<value, _updating_from_suggestion, _autocomplete_debounce, executor,
                   container_display, list_visible, _suggestions, _cache, model_loaded,
                   gap, burst_last, burst_task, burst_calls>>
    /\ UNCHANGED <<resolverVars, sideVars, task_pre>>

\* on_input_submitted and submit_message up to the call of get_smart_command
\* (lines 104-108, 276-302)
on_input_submitted ==
    /\ LoopFree
    /\ inflight # << >>
    /\ Head(inflight).type = "Submitted"
    /\ hide_suggestions
    /\ user_input' = value
    /\ IF Blank(value)
       THEN \* lines 287-288
            /\ inflight' = Tail(inflight)
            /\ output_log' = << >>
            /\ invoked' = << >>
            /\ UNCHANGED <<value, submit_pc, app, task_pre>>
       ELSE IF clean_input(value) \in {"exit", "quit"}
       THEN \* lines 291-295
            /\ inflight' = Tail(inflight)
            /\ output_log' = <<Line("exiting", "")>>
            /\ invoked' = << >>
            /\ app' = "exited"
            /\ UNCHANGED <<value, submit_pc, task_pre>>
       ELSE \* lines 298-302: Input.clear() posts Input.Changed for the emptied field
            /\ value' = ""
            /\ inflight' = Append(Tail(inflight), ChangedBy("", "clear"))
            /\ output_log' = <<Line("request", value)>>
            /\ invoked' = <<"get_smart_command">>
            /\ submit_pc' = "resolving"
            /\ task_pre' = Pending(_autocomplete_debounce)
            /\ UNCHANGED app
    /\ UNCHANGED <<_updating_from_suggestion, _autocomplete_debounce, executor,
                   _cache, model_loaded, gap, burst_last, burst_task, burst_calls>>
    /\ UNCHANGED <<resolverVars, engineVars, execVars, micVars, ragVars, command_to_run, uncaught>>

\* get_smart_command returns, ollama.chat having answered r; submit_message goes on
\* to the call of execute_command (lines 302-319)
get_smart_command_returns(r) ==
    /\ app = "running"
    /\ submit_pc = "resolving"
    /\ \E out \in {get_smart_command(user_input, current_os, home_dir, r)} :
           /\ reply' = IF ReachesLayer3(user_input, current_os, home_dir) THEN r ELSE reply
           /\ IF out.raised
              THEN /\ app' = "crashed"
                   /\ uncaught' = "IndexError"
                   /\ submit_pc' = "idle"
                   /\ UNCHANGED <<result, command_to_run, output_log, invoked>>
              ELSE IF Len(out.value) # 2
              THEN \* line 302 unpacks the returned str into two names
                   /\ result' = out.value
                   /\ app' = "crashed"
                   /\ uncaught' = "ValueError"
                   /\ submit_pc' = "idle"
                   /\ UNCHANGED <<command_to_run, output_log, invoked>>
              ELSE /\ result' = out.value
                   /\ command_to_run' = Ch(out.value, 1)
                   /\ IF Blank(Ch(out.value, 1))
                      THEN \* lines 305-308
                           /\ output_log' = Append(output_log, Line("warning", ""))
                           /\ submit_pc' = "idle"
                           /\ UNCHANGED invoked
                      ELSE \* lines 311-315, 318-319
                           /\ output_log' = output_log \o
                                  <<Line("status", Ch(out.value, 2)),
                                    Line("executing", Ch(out.value, 1))>>
                           /\ submit_pc' = "executing"
                           /\ invoked' = Append(invoked, "execute_command")
                   /\ UNCHANGED <<app, uncaught>>
    /\ UNCHANGED <<current_os, home_dir, text, pc, layers, l2, chat_calls, origin, exception>>
    /\ UNCHANGED <<tuiVars, engineVars, execVars, micVars, ragVars, user_input, task_pre>>

\* the process of execute_command ends as w says; submit_message runs to its end
\* (lines 319-333)
process_returns(w) ==
    /\ app = "running"
    /\ submit_pc = "executing"
    /\ w \in Worlds(command_to_run, current_os)
    /\ exec_command' = command_to_run
    /\ world' = w
    /\ exec_out' = execute_command(command_to_run, current_os, w)
    /\ submit_pc' = "idle"
    /\ IF exec_out'.raised
       THEN \* lines 322-324, then len(result) at line 327 with result never bound
            /\ output_log' = Append(output_log, Line("error", exec_out'.exception))
            /\ app' = "crashed"
            /\ uncaught' = "UnboundLocalError"
       ELSE /\ output_log' = IF exec_out'.value # ""
                             THEN Append(output_log, Line("result", exec_out'.value))
                             ELSE output_log
            /\ UNCHANGED <<app, uncaught>>
    /\ UNCHANGED <<resolverVars, tuiVars, engineVars, micVars, ragVars,
                   user_input, command_to_run, invoked, task_pre>>

\* what the user submits
SubmitTexts ==
    {"exit", "Quit!", " EXIT. ", "exit .", "exit now", "ls", "dir reports",
     "make a file x on desktop", "hi", " "}

SubmitReplies ==
    FailureReplies \cup {ContentReply(c) : c \in {"ls", "date", "", "rm -rf /"}}

\* the text t typed into the field, its events handled, and Enter pressed; the
\* autocomplete model is not loaded
Typed(t) ==
    /\ value = t
    /\ inflight = <<Submitted>>
    /\ _updating_from_suggestion = FALSE
    /\ _autocomplete_debounce = IF Blank(t) THEN NoTask ELSE Finished("done")
    /\ executor = << >>
    /\ container_display = FALSE
    /\ list_visible = FALSE
    /\ _suggestions = << >>
    /\ _cache = {}
    /\ model_loaded = FALSE
    /\ gap = Window
    /\ burst_last = t
    /\ burst_task = FALSE
    /\ burst_calls = << >>

SubmitInit ==
    /\ \E os \in OSIdentity : ResolverIdleOn(os)
    /\ \E t \in SubmitTexts : Typed(t)
    /\ SideIdle

SubmitNext ==
    \/ on_input_submitted
    \/ \E r \in SubmitReplies : get_smart_command_returns(r)
    \/ (submit_pc = "executing" /\
            \E w \in Worlds(command_to_run, current_os) : process_returns(w))
    \/ on_input_changed

SpecSubmit == SubmitInit /\ [][SubmitNext]_vars

\* typing and autocomplete, without submissions
TuiNext ==
    \/ \E v \in InputValues : Type(v)
    \/ on_input_changed
    \/ debounced_autocomplete
    \/ \E i \in 1..MaxJobs, decoded \in GenOutputs : run_in_executor(i, decoded)
    \/ \E i \in 1..limit : on_option_list_option_selected(i)
    \/ on_suggestion_list_selected
    \/ on_key_escape
    \/ Tick

SpecTui == TuiInit /\ [][TuiNext]_vars

\* what ollama.chat answers to a text typed in the field
TuiReplies == {ContentReply("ls"), ContentReply("date")}

\* how the process started for the command ends
TuiWorlds ==
    {w \in Worlds(command_to_run, current_os) : w.stdout = "" /\ w.status \in {0, 127}}

TuiSubmitInit == TuiInit /\ model_loaded = TRUE

\* typing, autocomplete and submission
TuiSubmitNext ==
    \/ \E v \in {"", "a"} : Type(v)
    \/ on_input_changed
    \/ debounced_autocomplete
    \/ \E i \in 1..MaxJobs : run_in_executor(i, <<"a", "ab">>)
    \/ \E i \in 1..limit : on_option_list_option_selected(i)
    \/ on_suggestion_list_selected
    \/ on_key_escape
    \/ Tick
    \/ PressEnter
    \/ on_input_submitted
    \/ \E r \in TuiReplies : get_smart_command_returns(r)
    \/ (submit_pc = "executing" /\ \E w \in TuiWorlds : process_returns(w))

SpecTuiSubmit == TuiSubmitInit /\ [][TuiSubmitNext]_vars

(***************************************************************************)
(* tui_app.py and voice_interface.py: the microphone                       *)
(***************************************************************************)
\* how VoiceInterface.listen ends: a text is recognised; nothing is said within
\* the timeout; the audio is not understood; the recognition service fails; no
\* microphone can be opened
VoiceOutcomes == {"text", "WaitTimeoutError", "UnknownValueError", "RequestError", "OSError"}

HeardTexts == {"ls", "ab", "pwd", " "}

\* VoiceInterface.listen (lines 22-39): sr.Microphone() is evaluated by the with
\* statement, before the try block is entered
listen(outcome, said) ==
    IF outcome = "OSError" THEN [raised |-> TRUE, value |-> ""]
    ELSE IF outcome = "text" THEN [raised |-> FALSE, value |-> said]
    ELSE [raised |-> FALSE, value |-> ""]

\* F2 or the Mic button (lines 335-342)
action_toggle_mic ==
    /\ LoopFree
    /\ listen_worker = "none"
    /\ inflight = << >>
    /\ placeholder' = "listening"
    /\ input_disabled' = TRUE
    /\ output_log' = <<Line("listening", "")>>
    /\ listen_worker' = "running"
    /\ UNCHANGED heard
    /\ UNCHANGED <<resolverVars, tuiVars, engineVars, execVars, ragVars, task_pre>>
    /\ UNCHANGED <<submit_pc, user_input, command_to_run, app, invoked, uncaught>>

\* listen_worker in its thread (lines 344-346): listen ends, and its text is handed
\* to the event loop; an exception of listen ends the worker, and the application
\* with it, before call_from_thread
listen_worker_ends(outcome, said) ==
    /\ app = "running"
    /\ listen_worker = "running"
    /\ \E out \in {listen(outcome, said)} :
           IF out.raised
           THEN /\ listen_worker' = "failed"
                /\ app' = "crashed"
                /\ uncaught' = outcome
                /\ UNCHANGED heard
           ELSE /\ listen_worker' = "posted"
                /\ heard' = out.value
                /\ UNCHANGED <<app, uncaught>>
    /\ UNCHANGED <<input_disabled, placeholder>>
    /\ UNCHANGED <<resolverVars, tuiVars, engineVars, execVars, ragVars, task_pre>>
    /\ UNCHANGED <<submit_pc, user_input, command_to_run, output_log, invoked>>

\* on_listen_finished (lines 348-362): setting the value posts Input.Changed when
\* the value changes, and line 359 posts one more
on_listen_finished ==
    /\ LoopFree
    /\ listen_worker = "posted"
    /\ listen_worker' = "none"
    /\ input_disabled' = FALSE
    /\ placeholder' = "normal"
    /\ IF ~Blank(heard)
       THEN /\ output_log' = Append(output_log, Line("heard", heard))
            /\ value' = heard
            /\ inflight' = inflight \o (IF heard # value THEN <<ChangedBy(heard, "voice")>> ELSE << >>)
                                    \o <<ChangedBy(heard, "voice")>>
       ELSE /\ output_log' = Append(output_log, Line("not heard", ""))
            /\ UNCHANGED <<value, inflight>>
    /\ UNCHANGED heard
    /\ UNCHANGED <<_updating_from_suggestion, _autocomplete_debounce, executor,
                   container_display, list_visible, _suggestions, _cache, model_loaded,
                   gap, burst_last, burst_task, burst_calls>>
    /\ UNCHANGED <<resolverVars, engineVars, execVars, ragVars, task_pre>>
    /\ UNCHANGED <<submit_pc, user_input, command_to_run, app, invoked, uncaught>>

\* the field holds any text when the microphone is switched on
MicInit ==
    /\ ResolverIdle
    /\ value \in InputValues \cup HeardTexts
    /\ inflight = << >>
    /\ _updating_from_suggestion = FALSE
    /\ _autocomplete_debounce = IF Blank(value) THEN NoTask ELSE Finished("done")
    /\ executor = << >>
    /\ container_display = FALSE
    /\ list_visible = FALSE
    /\ _suggestions = << >>
    /\ _cache = {}
    /\ model_loaded = FALSE
    /\ gap = Window
    /\ burst_last = value
    /\ burst_task = FALSE
    /\ burst_calls = << >>
    /\ SideIdle

MicNext ==
    \/ action_toggle_mic
    \/ \E outcome \in VoiceOutcomes, said \in HeardTexts : listen_worker_ends(outcome, said)
    \/ on_listen_finished
    \/ on_input_changed

\* the worker thread runs to its end and the event loop runs what is handed to it
SpecMic ==
    /\ MicInit
    /\ [][MicNext]_vars
    /\ WF_vars(\E outcome \in VoiceOutcomes, said \in HeardTexts : listen_worker_ends(outcome, said))
    /\ WF_vars(on_listen_finished)
    /\ WF_vars(on_input_changed)

(***************************************************************************)
(* rag_engine: retrieval of command suggestions                            *)
(***************************************************************************)
\* DEFAULT_DATASETS (lines 30-33): _build_documents records the file name of the
\* dataset as the source_file of each document (line 101)
DEFAULT_DATASETS == <<"LINUX_TERMINAL_COMMANDS.jsonl", "POWERSHELL_COMMANDS.jsonl">>

\* the most documents the store ranks for a question
MaxDocs == 4

\* the distances the store reports, 1..MaxScore
MaxScore == 2

NonDecreasing(sc) == \A i \in 1..(Len(sc) - 1) : sc[i] <= sc[i + 1]

\* the documents of the store by ascending distance to the question; command
\* tells the documents apart
Rankings ==
    {[i \in DOMAIN src |-> [source_file |-> src[i],
                            command |-> "cmd" \o ToString(i),
                            score |-> sc[i]]] :
        <<src, sc>> \in {p \in SeqsUpTo({DEFAULT_DATASETS[1], DEFAULT_DATASETS[2]}, MaxDocs)
                                \X SeqsUpTo(1..MaxScore, MaxDocs) :
                            /\ Len(p[1]) = Len(p[2])
                            /\ Len(p[1]) >= 1
                            /\ NonDecreasing(p[2])}}

\* FAISS.similarity_search_with_score(question, k=n): the n nearest documents,
\* nearest first
similarity_search_with_score(rank, n) == SubSeq(rank, 1, Min(n, Len(rank)))

\* _score_source_priority (lines 169-181)
_score_source_priority(source_file) ==
    LET name == Lower(source_file)
    IN  IF Contains(name, "linux") THEN 0
        ELSE IF Contains(name, "powershell") \/ Contains(name, "ps") THEN 1
        ELSE 2

\* the sort key of line 213, compared as Python compares tuples
KeyLess(a, b) ==
    LET pa == _score_source_priority(a.source_file)
        pb == _score_source_priority(b.source_file)
    IN  pa < pb \/ (pa = pb /\ a.score < b.score)

RECURSIVE InsertByKey(_, _)
\* r goes behind every element whose key is not greater: list.sort is stable
InsertByKey(sorted, r) ==
    IF sorted = << >> THEN <<r>>
    ELSE IF KeyLess(r, Head(sorted)) THEN <<r>> \o sorted
    ELSE <<Head(sorted)>> \o InsertByKey(Tail(sorted), r)

RECURSIVE SortByKey(_)
\* results.sort(key=...) of line 213
SortByKey(results) ==
    IF results = << >> THEN << >>
    ELSE InsertByKey(SortByKey(SubSeq(results, 1, Len(results) - 1)), results[Len(results)])

\* rag_suggestions (lines 184-215) once ensure_vectorstore returned vs
rag_suggestions(vs, rank, question, k) ==
    IF vs = "None" THEN << >>
    ELSE IF Strip(question) = "" THEN << >>
    ELSE SliceTo(SortByKey(similarity_search_with_score(rank, k * 2)), k)

\* rag_answer (lines 218-277) from the suggestions of line 228; filtered_cmds is
\* its filtered
rag_answer(suggestions, question, os_name) ==
    LET q_lower == Lower(question)
        IsLinux(s) == Contains(Lower(s.source_file), "linux")
        IsPs(s) == Contains(Lower(s.source_file), "powershell")
        linux_cmds == SelectSeq(suggestions, IsLinux)
        ps_cmds == SelectSeq(suggestions, IsPs)
        filtered_cmds ==
            IF Contains(q_lower, "powershell") \/ Contains(q_lower, "ps ")
               \/ Contains(q_lower, "windows")
            THEN (IF ps_cmds # << >> THEN ps_cmds ELSE suggestions)
            ELSE IF Contains(q_lower, "linux") \/ Contains(q_lower, "ubuntu")
                    \/ Contains(q_lower, "centos")
            THEN (IF linux_cmds # << >> THEN linux_cmds ELSE suggestions)
            ELSE IF os_name = "windows"
            THEN (IF ps_cmds # << >> THEN ps_cmds ELSE suggestions)
            ELSE (IF linux_cmds # << >> THEN linux_cmds ELSE suggestions)
    IN  IF suggestions = << >>
        THEN [rag |-> TRUE,
              answer |-> "No relevant commands found for: " \o question,
              references |-> {},
              suggestions |-> << >>]
        ELSE [rag |-> TRUE,
              answer |-> "Based on your question: '" \o question
                             \o "', here are relevant commands.",
              references |-> {filtered_cmds[i].source_file : i \in DOMAIN filtered_cmds},
              suggestions |-> filtered_cmds]

RagQuestions ==
    {"list files in PowerShell", "copy a file on Windows", "list files on linux",
     "list files", "ps aux", "  "}

\* the k of the call; the default is 6 (lines 184, 218)
RagKs == {1, 2}

\* the call of rag_suggestions or of rag_answer, which calls rag_suggestions at
\* line 228. ensure_vectorstore (lines 143-166) keeps a loaded store and
\* otherwise loads or builds it, leaving None when that fails; the store ranks
\* its documents for the question
RagCall(function, question, k) ==
    /\ rag_call = NoRagCall
    /\ \E vs \in (IF _VS = "None" THEN {"None", "loaded"} ELSE {_VS}) :
       \E rank \in Rankings :
       \E suggestions \in {rag_suggestions(vs, rank, question, k)} :
           /\ _VS' = vs
           /\ rag_call' =
                  [function |-> function,
                   question |-> question,
                   k |-> k,
                   candidates |-> IF vs = "None" \/ Strip(question) = "" THEN << >>
                                  ELSE similarity_search_with_score(rank, k * 2),
                   suggestions |-> suggestions,
                   answer |-> IF function = "rag_answer"
                              THEN rag_answer(suggestions, question, rag_os)
                              ELSE NoAnswer]
    /\ UNCHANGED rag_os
    /\ UNCHANGED <<resolverVars, tuiVars, engineVars, execVars, submitVars, micVars, task_pre>>

rag_suggestions_called == \E q \in RagQuestions, k \in RagKs : RagCall("rag_suggestions", q, k)

rag_answer_called == \E q \in RagQuestions, k \in RagKs : RagCall("rag_answer", q, k)

\* the store was loaded by an earlier call or not yet
RagInit ==
    /\ ResolverIdle
    /\ Mounted
    /\ model_loaded = FALSE
    /\ stored = {}
    /\ last_call = NoCall
    /\ exec_command = ""
    /\ world = NoWorld
    /\ exec_out = NoOut
    /\ submit_pc = "idle"
    /\ user_input = ""
    /\ command_to_run = ""
    /\ output_log = << >>
    /\ app = "running"
    /\ invoked = << >>
    /\ uncaught = ""
    /\ task_pre = FALSE
    /\ input_disabled = FALSE
    /\ placeholder = "normal"
    /\ listen_worker = "none"
    /\ heard = ""
    /\ _VS \in {"None", "loaded"}
    /\ rag_os \in {"linux", "windows", "darwin"}
    /\ rag_call = NoRagCall

RagNext == rag_suggestions_called \/ rag_answer_called

SpecRag == RagInit /\ [][RagNext]_vars

(***************************************************************************)
(* Properties of the autocomplete                                          *)
(***************************************************************************)
\* C10: over a burst of input-changed events, each handled within the debounce
\* window of the previous one, suggest is called at most once; and once the burst
\* is over (the window has passed, no event is queued) every call made for it
\* carried the value of its last event
C10_BurstGeneratesAtMostOnce ==
    /\ Len(burst_calls) <= 1
    /\ (gap >= Window /\ inflight = << >>) =>
           \A i \in DOMAIN burst_calls : burst_calls[i] = burst_last

\* C11: two _generate_sync_suggestions calls are never in progress in the executor
\* at the same time
C11_OneGenerationAtATime == Len(executor) <= 1

\* C12: when a generation completes and its suggestions are put on the list, the
\* field still holds the text the generation was started for
C12_StaleResultDiscarded ==
    [][(/\ _autocomplete_debounce.state = "generating"
        /\ _autocomplete_debounce'.state = "done"
        /\ container_display'
        /\ list_visible')
       => value = _autocomplete_debounce.input_value]_vars

\* C13: once every queued event has been handled, the suggestion container is
\* hidden while the field is empty or whitespace-only
C13_HiddenWhileCleared ==
    (Blank(value) /\ inflight = << >>) => ~container_display

Normalized(t) == Lower(Strip(t))

\* C14: a text whose trimmed, lower-cased form equals that of a text suggest
\* generated and stored list S for gets S up to the limit and the model is not
\* invoked again for it; a text with another normalized form finds nothing in the
\* cache; after clear_cache the cache is empty
C14_CacheKeyedByNormalizedInput ==
    /\ \A p \in stored :
           /\ \A q \in stored : Normalized(p[1]) = Normalized(q[1]) => p = q
           /\ (last_call # NoCall /\ Normalized(last_call.text) = Normalized(p[1])) =>
                  /\ last_call.returned = SliceTo(p[2], last_call.limit)
                  /\ last_call.generated => last_call.text = p[1]
    /\ \A t \in EngineTexts :
           Cached(CacheKey(t)) <=> \E p \in stored : Normalized(p[1]) = Normalized(t)
    /\ stored = {} => _cache = {}

C14_Witness ==
    /\ \E p \in stored : p[1] = "a" /\ p[2] = <<"a", "ab">>
    /\ last_call = [text |-> " a ", limit |-> 1, returned |-> <<"a">>, generated |-> FALSE,
                    failed |-> FALSE]
    /\ ~Cached(CacheKey("ab"))

(***************************************************************************)
(* Properties of execute_command                                           *)
(***************************************************************************)
\* C15: execute_command does not raise when the process it started exits with a
\* non-zero status, it returns the captured stderr; for the empty command it
\* starts no process and returns the message 'No command to execute.'
C15_NonZeroExitReturnsStderr ==
    exec_out.called =>
        /\ (exec_out.started /\ world.status # 0) =>
               (~exec_out.raised /\ exec_out.value = world.stderr)
        /\ exec_command = "" =>
               /\ ~exec_out.started
               /\ ~exec_out.raised
               /\ exec_out.value = "No command to execute."

\* C16: when the shell cannot resolve the executable the command names,
\* execute_command returns 'Command not found: <name>'
C16_UnresolvedIsCommandNotFound ==
    (exec_out.called /\ ~world.resolved) =>
        /\ ~exec_out.raised
        /\ exec_out.value = "Command not found: " \o ExecutableName(exec_command)

(***************************************************************************)
(* Properties of submit_message                                            *)
(***************************************************************************)
\* C17: for a submitted text that is not blank and not exit/quit, no exception
\* leaves submit_message and the application keeps running, whatever the
\* resolver returns and however the execution ends
C17_SubmitAbsorbsEveryError ==
    (~Blank(user_input) /\ clean_input(user_input) \notin {"exit", "quit"}) =>
        (uncaught = "" /\ app = "running")

\* C20: a submitted exit or quit stops the application without a call of
\* get_smart_command or execute_command, and the application stops for no
\* other submitted text
C20_OnlyExitTerminates ==
    /\ clean_input(user_input) \in {"exit", "quit"} => (app = "exited" /\ invoked = << >>)
    /\ app # "running" => clean_input(user_input) \in {"exit", "quit"}

\* how many times submit_message called execute_command for the submission
ExecuteCalls == Cardinality({i \in 1..Len(invoked) : invoked[i] = "execute_command"})

\* C27: when submit_message is over for a text that is not blank and not
\* exit/quit, execute_command was called once, with the whole string that
\* get_smart_command returned, and that string is the one shown as Executing
C27_ExecutesResolvedCommandOnce ==
    (/\ ~Blank(user_input)
     /\ clean_input(user_input) \notin {"exit", "quit"}
     /\ submit_pc = "idle") =>
        /\ ExecuteCalls = 1
        /\ exec_out.called
        /\ exec_command = result
        /\ InList(Line("executing", result), output_log)

\* C18: while get_smart_command or execute_command runs for a submission, the
\* event loop still handles a waiting Input.Changed event and still runs a
\* debounce timer that has expired
C18_LoopServesEventsWhileSubmitting ==
    (app = "running" /\ submit_pc \in {"resolving", "executing"}) =>
        /\ (inflight # << >> /\ Head(inflight).type = "Changed") => ENABLED on_input_changed
        /\ (/\ _autocomplete_debounce.state = "sleeping"
            /\ _autocomplete_debounce.remaining = 0
            /\ Len(executor) < MaxJobs) => ENABLED debounced_autocomplete

\* C19: a debounce task that was pending when the input was submitted never
\* makes the suggestion list visible afterwards
C19_SubmissionDropsPendingAutocomplete ==
    [][~(/\ task_pre
         /\ Pending(_autocomplete_debounce)
         /\ _autocomplete_debounce'.state = "done"
         /\ container_display'
         /\ list_visible')]_vars

(***************************************************************************)
(* Further properties of the autocomplete                                  *)
(***************************************************************************)
\* on_input_changed handles the event at the head of the queue
HandlesChanged ==
    /\ inflight # << >>
    /\ Head(inflight).type = "Changed"
    /\ inflight' = Tail(inflight)

\* C24: handling an Input.Changed event whose text is blank leaves no pending
\* debounce task and no visible suggestions, in whatever state the handler is
C24_BlankChangeCancelsAndHides ==
    [][(HandlesChanged /\ Blank(Head(inflight).value)) =>
           /\ ~Pending(_autocomplete_debounce')
           /\ ~container_display'
           /\ ~list_visible']_vars

\* C25: a call of suggest whose generation failed writes no entry for its key
\* into the cache, so that the next request for the text generates again
C25_FailedGenerationStoresNothing ==
    last_call.failed => ~Cached(CacheKey(last_call.text))

\* the first place of x among the stripped results
FirstSeen(x, results) ==
    CHOOSE i \in 1..Len(results) :
        Strip(results[i]) = x /\ \A j \in 1..(i - 1) : Strip(results[j]) # x

\* C26: every list in the cache has no empty string and no string twice, holds
\* exactly the non-empty results of the generation that produced it, in the order
\* in which they were first seen, and lies under the trimmed, lower-cased text
\* of that request
C26_CachedListsAreClean ==
    \A entry \in _cache :
        LET key == entry[1]
            list == entry[2]
        IN  /\ \A i \in 1..Len(list) : list[i] # ""
            /\ \A i, j \in 1..Len(list) : list[i] = list[j] => i = j
            /\ \E p \in stored :
                   /\ key = Lower(Strip(p[1]))
                   /\ list = p[2]
                   /\ {list[i] : i \in 1..Len(list)} =
                          {Strip(p[3][i]) : i \in 1..Len(p[3])} \ {""}
                   /\ \A i, j \in 1..Len(list) :
                          i < j => FirstSeen(list[i], p[3]) < FirstSeen(list[j], p[3])

\* a generation that returned a blank, padded results and repeats was stored
C26_Witness ==
    /\ <<"a", <<"ab", "a">>>> \in _cache
    /\ \E p \in stored : p[1] = " a " /\ p[3] = <<"ab", "", "ab ", "a", "ab">>

\* C28: an Input.Changed event that the user's own typing caused is never
\* handled with _updating_from_suggestion set, that is, never skipped
C28_TypingIsNeverSkipped ==
    [][(HandlesChanged /\ Head(inflight).cause = "key") => ~_updating_from_suggestion]_vars

(***************************************************************************)
(* Properties of the microphone                                            *)
(***************************************************************************)
\* C29: once action_toggle_mic has disabled the input field, the field is
\* eventually enabled again with its normal placeholder, however the listening
\* ends
C29_MicReenablesInput ==
    input_disabled ~> (~input_disabled /\ placeholder = "normal")

(***************************************************************************)
(* Properties of the retrieval                                             *)
(***************************************************************************)
LinuxSourced(s) == Contains(Lower(s.source_file), "linux")

PowerShellSourced(s) == Contains(Lower(s.source_file), "powershell")

\* Linux-sourced first, then PowerShell-sourced, then the others
SourceGroup(s) == IF LinuxSourced(s) THEN 0 ELSE IF PowerShellSourced(s) THEN 1 ELSE 2

MentionsPowerShellOrWindows(q) ==
    Contains(Lower(q), "powershell") \/ Contains(Lower(q), "windows")

\* C30: when the question given to rag_answer mentions PowerShell or Windows and
\* the candidates of the similarity search (the top 2k documents) include a
\* PowerShell-sourced document, every suggestion rag_answer returns is
\* PowerShell-sourced; and rag_suggestions returns at most k results, Linux-sourced
\* first, then PowerShell-sourced, then others, by ascending score within a group
C30_ExplicitPlatformHonoured ==
    /\ (/\ rag_call.function = "rag_answer"
        /\ MentionsPowerShellOrWindows(rag_call.question)
        /\ \E i \in DOMAIN rag_call.candidates : PowerShellSourced(rag_call.candidates[i]))
       => \A i \in DOMAIN rag_call.answer.suggestions :
              PowerShellSourced(rag_call.answer.suggestions[i])
    /\ rag_call.function = "rag_suggestions" =>
           /\ Len(rag_call.suggestions) <= rag_call.k
           /\ \A i \in 1..(Len(rag_call.suggestions) - 1) :
                  LET a == rag_call.suggestions[i]
                      b == rag_call.suggestions[i + 1]
                  IN  \/ SourceGroup(a) < SourceGroup(b)
                      \/ SourceGroup(a) = SourceGroup(b) /\ a.score <= b.score
=============================================================================
